---- MODULE Spec2Model ----
(***************************************************************************)
(* PECOK ADMM solver (src/pecok/admm.py).                                  *)
(*                                                                         *)
(* Arithmetic is exact: a real number is a normalised fraction <<p, q>>    *)
(* with q > 0 and gcd(p, q) = 1.  A matrix is a sequence of rows, as a     *)
(* numpy array of shape (n, n).  A Frobenius norm is irrational in         *)
(* general, so a norm is carried as its square.                            *)
(***************************************************************************)
EXTENDS Integers, Sequences, FiniteSets

\* ------------------------------------------------------------------ bounds
\* n_iter_max ranges over 0 .. MaxIter.
MaxIter == 3
\* Matrix sizes n range over 2 .. MaxN - 1, besides the circulant matrices,
\* which have size 4; K ranges over 1 .. n.
MaxN == 4
\* Entries of the matrices handed to the projectors range over
\* -MaxEntry .. MaxEntry.
MaxEntry == 1
\* 1 / epsilon (admm.py line 104: epsilon = 1e-8).
EpsilonInv == 100000000

\* --------------------------------------------------------------- evaluation
\* Only({e : v \in {d}}) is LET v == d IN e with d evaluated once: an
\* operator argument is an expression, evaluated at each use, and a bound
\* variable is a value.
Only(S) == CHOOSE r \in S : TRUE

\* An array holds its elements: the tuple of the values of f on 1 .. Len(f).
Strict(f) == SubSeq(f, 1, Len(f))

\* --------------------------------------------------------------- fractions
Abs(a) == IF a < 0 THEN -a ELSE a

RECURSIVE Gcd(_, _)
Gcd(a, b) == IF b = 0 THEN a ELSE Only({Gcd(b, r) : r \in {a % b}})

Lcm(a, b) == (a \div Gcd(a, b)) * b

\* The fraction p / q (q # 0) in lowest terms with a positive denominator.
Rat(p0, q0) ==
    Only({Only({IF q < 0 THEN <<-(p \div g), -(q \div g)>>
                ELSE <<p \div g, q \div g>> : g \in {Gcd(Abs(p), Abs(q))}})
          : p \in {p0}, q \in {q0}})

FromInt(k) == <<k, 1>>
RZero == <<0, 1>>
ROne == <<1, 1>>

RAdd(x0, y0) ==
    Only({Only({Rat(x[1] * (l \div x[2]) + y[1] * (l \div y[2]), l)
                : l \in {Lcm(x[2], y[2])}})
          : x \in {x0}, y \in {y0}})

RNeg(x0) == Only({<<-x[1], x[2]>> : x \in {x0}})
RSub(x0, y0) == RAdd(x0, RNeg(y0))

RMul(x0, y0) ==
    Only({Only({Rat((x[1] \div g1) * (y[1] \div g2),
                    (x[2] \div g2) * (y[2] \div g1))
                : g1 \in {Gcd(Abs(x[1]), y[2])}, g2 \in {Gcd(Abs(y[1]), x[2])}})
          : x \in {x0}, y \in {y0}})

\* x / y, y # 0.
RDiv(x0, y0) == RMul(x0, Only({Rat(y[2], y[1]) : y \in {y0}}))

RLt(x0, y0) == RSub(x0, y0)[1] < 0
RLe(x0, y0) == RSub(x0, y0)[1] <= 0
RMax(x0, y0) == Only({IF RLt(x, y) THEN y ELSE x : x \in {x0}, y \in {y0}})

\* Integer square root (the largest r with r * r <= a), a >= 0.
RECURSIVE ISqrtFrom(_, _)
ISqrtFrom(a, r) ==
    IF (r + 1) * (r + 1) > a THEN r ELSE Only({ISqrtFrom(a, s) : s \in {r + 1}})
ISqrt(a0) == Only({ISqrtFrom(a, 0) : a \in {a0}})

IsSquare(x0) ==
    \E x \in {x0} : \E rp \in {ISqrt(Abs(x[1]))}, rq \in {ISqrt(x[2])} :
        x[1] >= 0 /\ rp * rp = x[1] /\ rq * rq = x[2]

\* The square root of a fraction that is a perfect square.
RSqrt(x0) == Only({<<ISqrt(x[1]), ISqrt(x[2])>> : x \in {x0}})

\* ---------------------------------------------------------------- matrices
\* Y.shape[0]
Shape(M) == Len(M)

\* The sum of v[lo .. hi], by halves; v is a tuple of fractions.
RECURSIVE SumRange(_, _, _)
SumRange(v, lo, hi) ==
    IF lo > hi THEN RZero
    ELSE IF lo = hi THEN v[lo]
    ELSE Only({RAdd(SumRange(v, lo, mid), SumRange(v, mid + 1, hi))
               : mid \in {(lo + hi) \div 2}})

SumSeq(v0) == Only({SumRange(v, 1, Len(v)) : v \in {v0}})

\* np.sum(Y, 1)
RowSums(M0) == Only({Strict([i \in 1..Len(M) |-> SumSeq(M[i])]) : M \in {M0}})
\* np.trace(Y)
Trace(M0) == Only({SumSeq([i \in 1..Len(M) |-> M[i][i]]) : M \in {M0}})
\* np.identity(n), np.zeros((n, n))
Identity(n) ==
    Strict([i \in 1..n |-> Strict([j \in 1..n |-> IF i = j THEN ROne ELSE RZero])])
Zeros(n) == Strict([i \in 1..n |-> Strict([j \in 1..n |-> RZero])])
MAdd(A0, B0) ==
    Only({Strict([i \in 1..Len(A) |->
            Strict([j \in 1..Len(A) |-> RAdd(A[i][j], B[i][j])])])
          : A \in {A0}, B \in {B0}})
MSub(A0, B0) ==
    Only({Strict([i \in 1..Len(A) |->
            Strict([j \in 1..Len(A) |-> RSub(A[i][j], B[i][j])])])
          : A \in {A0}, B \in {B0}})
MScale(A0, c0) ==
    Only({Strict([i \in 1..Len(A) |->
            Strict([j \in 1..Len(A) |-> RMul(A[i][j], c)])])
          : A \in {A0}, c \in {c0}})
MDiv(A0, c0) ==
    Only({Strict([i \in 1..Len(A) |->
            Strict([j \in 1..Len(A) |-> RDiv(A[i][j], c)])])
          : A \in {A0}, c \in {c0}})
\* temp.T
Transpose(A0) ==
    Only({Strict([i \in 1..Len(A) |-> Strict([j \in 1..Len(A) |-> A[j][i]])])
          : A \in {A0}})
\* np.diag(np.diag(temp))
DiagPart(A0) ==
    Only({Strict([i \in 1..Len(A) |->
            Strict([j \in 1..Len(A) |-> IF i = j THEN A[i][i] ELSE RZero])])
          : A \in {A0}})
\* u.repeat(m): every element m times in a row.
Repeat(u0, m) ==
    Only({Strict([k \in 1..(Len(u) * m) |-> u[((k - 1) \div m) + 1]])
          : u \in {u0}})
\* flat.reshape((n, n)): row-major.
Reshape(flat0, n) ==
    Only({Strict([i \in 1..n |-> Strict([j \in 1..n |-> flat[(i - 1) * n + j]])])
          : flat \in {flat0}})
\* np.diag(d) of a vector d.
DiagMat(d0) ==
    Only({Strict([i \in 1..Len(d) |->
            Strict([j \in 1..Len(d) |-> IF i = j THEN d[i] ELSE RZero])])
          : d \in {d0}})

\* <A, B>, the sum of the products of the entries: trace(A B) for symmetric B.
Inner(A0, B0) ==
    Only({SumSeq([k \in 1..(Len(A) * Len(A)) |->
            RMul(A[((k - 1) \div Len(A)) + 1][((k - 1) % Len(A)) + 1],
                 B[((k - 1) \div Len(A)) + 1][((k - 1) % Len(A)) + 1])])
          : A \in {A0}, B \in {B0}})

\* The square of np.linalg.norm(A): the sum of the squares of all entries.
NormSq(A0) ==
    Only({SumSeq([k \in 1..(Len(A) * Len(A)) |->
            RMul(A[((k - 1) \div Len(A)) + 1][((k - 1) % Len(A)) + 1],
                 A[((k - 1) \div Len(A)) + 1][((k - 1) % Len(A)) + 1])])
          : A \in {A0}})

\* Loud failure: the model has no exact value for the expression.
Unsupported == CHOOSE x \in {} : TRUE

\* ------------------------------------------------------- affine projectors
\* operator_lstarllstarinv(u, v): row i holds u[i], plus v on the diagonal.
operator_lstarllstarinv(u0, v0) ==
    Only({MAdd(Reshape(Repeat(u, Len(u)), Len(u)),
               DiagMat(Repeat(<<v>>, Len(u))))
          : u \in {u0}, v \in {v0}})

\* proj_lin_Hrows(Y, K)
proj_lin_Hrows(Y0, K0) ==
    Only({Only({Only({MSub(Y, operator_lstarllstarinv(invx, invy))
        : invx \in {Strict([i \in 1..n_samples |->
              RDiv(RAdd(x[i], RDiv(RSub(SumSeq(x), RMul(y, FromInt(n_samples))),
                                   FromInt(n_samples * n_samples - n_samples))),
                   FromInt(n_samples))])},
          invy \in {RDiv(RAdd(RDiv(RSub(y, SumSeq(x)), FromInt(n_samples - 1)), y),
                         FromInt(n_samples))}})
        : x \in {Strict([i \in 1..n_samples |-> RSub(RowSums(Y)[i], ROne)])},
          y \in {RSub(Trace(Y), FromInt(K0))}})
        : Y \in {Y0}, n_samples \in {Shape(Y0)}})

\* A faulty symmetrisation that keeps the diagonal counted twice.
operator_lstarllstarinv_sym_twice(u0, v0) ==
    Only({MAdd(temp, Transpose(temp))
          : temp \in {operator_lstarllstarinv(u0, v0)}})

\* operator_lstarllstarinv_sym(u, v)
operator_lstarllstarinv_sym(u0, v0) ==
    Only({MSub(MAdd(temp, Transpose(temp)), DiagPart(temp))
          : temp \in {operator_lstarllstarinv(u0, v0)}})

\* proj_lin_Hsymmetric(Y, K)
proj_lin_Hsymmetric(Y0, K0) ==
    Only({Only({Only({MSub(Y, operator_lstarllstarinv_sym(invx, invy))
        : invx \in {Strict([i \in 1..n_samples |->
              RDiv(RSub(x[i], RDiv(RAdd(SumSeq(x), y), FromInt(2 * n_samples))),
                   FromInt(n_samples - 1))])},
          invy \in {RDiv(RSub(y, RDiv(RAdd(SumSeq(x), y), FromInt(2 * n_samples))),
                         FromInt(n_samples - 1))}})
        : x \in {Strict([i \in 1..n_samples |-> RSub(RowSums(Y)[i], ROne)])},
          y \in {RSub(Trace(Y), FromInt(K0))}})
        : Y \in {Y0}, n_samples \in {Shape(Y0)}})

\* ---------------------------------------------------- nonnegative projector
\* A faulty clamp that also zeroes the entries equal to the threshold.
proj_positive_inclusive(x0, thresh0) ==
    Only({Strict([i \in 1..Len(x) |->
            Strict([j \in 1..Len(x) |->
              IF RLe(x[i][j], thresh) THEN RZero ELSE x[i][j]])])
          : x \in {x0}, thresh \in {thresh0}})

\* proj_positive(x, thresh): x[x < thresh] = 0, in place, and x is returned.
proj_positive(x0, thresh0) ==
    Only({Strict([i \in 1..Len(x) |->
            Strict([j \in 1..Len(x) |->
              IF RLt(x[i][j], thresh) THEN RZero ELSE x[i][j]])])
          : x \in {x0}, thresh \in {thresh0}})

\* --------------------------------------------------- symmetric eigenproblem
\* scipy.linalg.eigh reads the lower triangle only (lower=True).
LowerSym(M0) ==
    Only({Strict([i \in 1..Len(M) |->
            Strict([j \in 1..Len(M) |-> IF i >= j THEN M[i][j] ELSE M[j][i]])])
          : M \in {M0}})

\* Families of mutually orthogonal projectors with rational entries that sum
\* to the identity.  A symmetric matrix that is a combination of one family
\* has that family's projectors as its spectral projectors.
\*   the all-ones direction and its complement (any n);
ExchFamily(n) ==
    <<Strict([i \in 1..n |-> Strict([j \in 1..n |-> Rat(1, n)])]),
      Strict([i \in 1..n |->
        Strict([j \in 1..n |-> IF i = j THEN Rat(n - 1, n) ELSE Rat(-1, n)])])>>
\*   the coordinate axes (diagonal matrices, any n);
DiagFamily(n) ==
    Strict([k \in 1..n |->
      Strict([i \in 1..n |->
        Strict([j \in 1..n |-> IF i = k /\ j = k THEN ROne ELSE RZero])])])
\*   the real Fourier modes of the symmetric circulant matrices of size 4.
Circ4Family ==
    <<Strict([i \in 1..4 |-> Strict([j \in 1..4 |-> Rat(1, 4)])]),
      Strict([i \in 1..4 |->
        Strict([j \in 1..4 |-> IF (i + j) % 2 = 0 THEN Rat(1, 4) ELSE Rat(-1, 4)])]),
      Strict([i \in 1..4 |->
        Strict([j \in 1..4 |-> IF i = j THEN Rat(1, 2)
                               ELSE IF (i - j) % 4 = 2 THEN Rat(-1, 2)
                               ELSE RZero])])>>

Families(n) == {ExchFamily(n), DiagFamily(n)}
                 \cup (IF n = 4 THEN {Circ4Family} ELSE {})

\* The coefficient of L on each projector P of fam: trace(L P) / trace(P).
Coeffs(L0, fam0) ==
    Only({Strict([k \in 1..Len(fam) |->
            RDiv(Inner(L, fam[k]), Trace(fam[k]))])
          : L \in {L0}, fam \in {fam0}})

\* The sum of lam[k] * fam[k] over the k in 1 .. m that are in keep.
RECURSIVE Combine(_, _, _, _, _)
Combine(lam, fam, keep, m, n) ==
    IF m = 0 THEN Zeros(n)
    ELSE IF m \in keep
         THEN MAdd(Combine(lam, fam, keep, m - 1, n), MScale(fam[m], lam[m]))
         ELSE Combine(lam, fam, keep, m - 1, n)

InFamily(L, fam) ==
    \E lam \in {Coeffs(L, fam)} :
        Combine(lam, fam, 1..Len(fam), Len(fam), Len(L)) = L

\* The spectral decomposition of a symmetric matrix: groups of an eigenvalue,
\* its multiplicity and the projector onto its eigenvectors.
Spectrum(M0) ==
    Only({Only({Only({Strict([k \in 1..Len(fam) |->
                        [val |-> lam[k], mult |-> Trace(fam[k])[1],
                         proj |-> fam[k]]])
                      : lam \in {Coeffs(L, fam)}})
                : fam \in {CHOOSE f \in Families(Len(L)) : InFamily(L, f)}})
          : L \in {LowerSym(M0)}})

\* The number of eigenvalues, with multiplicity, in the groups ks of sp.
RECURSIVE MultSum(_, _)
MultSum(sp, ks) ==
    IF ks = {} THEN 0
    ELSE Only({sp[k].mult + MultSum(sp, ks \ {k}) : k \in {CHOOSE k \in ks : TRUE}})

\* A faulty count that takes the zero eigenvalues for negative ones.
CountNegative_nonpositive(Y0) ==
    Only({MultSum(sp, {k \in 1..Len(sp) : RLe(sp[k].val, RZero)})
          : sp \in {Spectrum(Y0)}})

\* np.sum(la.eigh(Y, eigvals_only=True) < 0)
CountNegative(Y0) ==
    Only({MultSum(sp, {k \in 1..Len(sp) : RLt(sp[k].val, RZero)})
          : sp \in {Spectrum(Y0)}})

\* eig_vals, v = la.eigh(M, eigvals=(lo, hi)); v.dot(np.diag(eig_vals)).dot(v.T)
\* Eigenvalues are indexed 0 .. n-1 in ascending order; group k occupies the
\* indices start[k] .. start[k] + mult - 1.  A range that cuts a group in two,
\* or that separates two groups of equal eigenvalue, selects eigenvectors
\* that the library is free to choose: it has no one value.
eigh_reconstruct(M0, lo0, hi0) ==
    Only({Only({Only({
        IF /\ \A k \in 1..Len(sp) :
                 \/ k \in inside
                 \/ start[k] + sp[k].mult - 1 < lo
                 \/ hi < start[k]
           /\ \A k \in inside, m \in (1..Len(sp)) \ inside :
                 sp[k].val # sp[m].val
        THEN Combine([k \in 1..Len(sp) |-> sp[k].val],
                     [k \in 1..Len(sp) |-> sp[k].proj], inside, Len(sp), Len(M0))
        ELSE Unsupported
        : inside \in {{k \in 1..Len(sp) :
                         lo <= start[k] /\ start[k] + sp[k].mult - 1 <= hi}}})
        : start \in {Strict([k \in 1..Len(sp) |->
              MultSum(sp, {m \in 1..Len(sp) :
                  \/ RLt(sp[m].val, sp[k].val)
                  \/ (sp[m].val = sp[k].val /\ m < k)})])}})
        : sp \in {Spectrum(M0)}, lo \in {lo0}, hi \in {hi0}})

\* ------------------------------------------------------------ PSD projector
\* Which return statement of proj_Snp_imp is taken.
SnpBranch(Y0) ==
    Only({IF n_val_neg = 0 THEN "unchanged"
          ELSE IF n_val_neg = n_samples THEN "zeros"
          ELSE IF n_val_neg < n_samples - n_val_neg THEN "negative_part"
          ELSE "positive_part"
          : n_samples \in {Shape(Y0)}, n_val_neg \in {CountNegative(Y0)}})

\* A faulty proj_Snp_imp that counts the eigenvalues below zero but never
\* removes them.
proj_Snp_imp_unprojected(Y0) == Y0

\* proj_Snp_imp(Y)
proj_Snp_imp(Y0) ==
    Only({IF n_val_neg = 0 THEN Y
          ELSE IF n_val_neg = n_samples THEN Zeros(n_samples)
          ELSE IF n_val_neg < n_samples - n_val_neg
               THEN MAdd(Y, eigh_reconstruct(MScale(Y, <<-1, 1>>),
                                             n_samples - n_val_neg, n_samples - 1))
               ELSE eigh_reconstruct(Y, n_val_neg, n_samples - 1)
          : Y \in {Y0}, n_samples \in {Shape(Y0)},
            n_val_neg \in {CountNegative(Y0)}})

\* ------------------------------------------------------ convergence monitor
\* a > epsilon^2 * b for squared norms a, b >= 0, that is
\* sqrt(a) > epsilon * sqrt(b).
Exceeds(a0, b0) ==
    \E a \in {a0}, b \in {b0} :
        IF a[1] = 0 THEN FALSE
        ELSE IF b[1] = 0 THEN TRUE
        ELSE \E q \in {RDiv(a, b)} :
                q[1] > ((q[2] \div EpsilonInv) \div EpsilonInv)

\* is_primal_high(res_primal, X, Y, Z), res_primal given as its square.
is_primal_high(res_primal, X, Y, Z) ==
    Exceeds(res_primal, RMax(RMax(NormSq(X), NormSq(Y)), NormSq(Z)))

\* is_dual_high(res_dual, Y, Z), res_dual given as its square.  With
\* s = n + |Y|^2 + |Z|^2 the bound t = sqrt(n) + |Y| + |Z| has
\* s <= t^2 <= 3 s; the comparison is decided whenever res_dual is outside
\* that band.
is_dual_high(res_dual, Y, Z) ==
    \E s \in {RAdd(FromInt(Shape(Y)), RAdd(NormSq(Y), NormSq(Z)))} :
        IF Exceeds(res_dual, RMul(FromInt(3), s)) THEN TRUE
        ELSE IF ~Exceeds(res_dual, s) THEN FALSE
        ELSE Unsupported

\* A faulty dual residual that forgets the factor rho.
DualResidual_unscaled(r, A, oldA) == NormSq(MSub(A, oldA))

\* rho * np.linalg.norm(Xbar - oldXbar), squared.
DualResidual(r, A, oldA) == RMul(RMul(r, r), NormSq(MSub(A, oldA)))

\* np.linalg.norm((X - Xbar, Z - Xbar, Y - Xbar)), squared: the norm of the
\* (3, n, n) array is the norm of all its entries.
PrimalResidual(A, B, C, Abar) ==
    RAdd(NormSq(MSub(A, Abar)),
         RAdd(NormSq(MSub(C, Abar)), NormSq(MSub(B, Abar))))

\* if not (is_primal_high(...) or is_dual_high(...)): break
KeepIterating(rp, rd, A, B, C) ==
    is_primal_high(rp, A, B, C) \/ is_dual_high(rd, B, C)

\* -------------------------------------------------------------------- state
VARIABLES
    pc,               \* the statement pecok_admm is at
    relational_data,  \* the normalised relational matrix
    K, rho, n_iter_max,
    n_iter,
    X, Y, Z, U, V, W, Xbar, oldXbar,
    res_primal, res_dual,   \* squared; Unbound before the first assignment
    call,             \* projector harness: the function called, or "none"
    arg, argK, thresh,      \* its arguments
    out               \* its return value

\* A local name that no statement has assigned yet.
Unbound == <<>>

admmVars == <<pc, relational_data, K, rho, n_iter_max, n_iter,
              X, Y, Z, U, V, W, Xbar, oldXbar, res_primal, res_dual>>
callVars == <<call, arg, argK, thresh, out>>
vars == <<admmVars, callVars>>

\* ------------------------------------------------------------------- inputs
AllOnes(n) == Strict([i \in 1..n |-> Strict([j \in 1..n |-> ROne])])

\* The symmetric circulant matrix of size 4 with first row (c0, c1, c2, c1).
Circulant4(c0, c1, c2) ==
    Strict([i \in 1..4 |-> Strict([j \in 1..4 |-> FromInt(IF i = j THEN c0 ELSE IF (i - j) % 4 = 2 THEN c2 ELSE c1)])])

\* Symmetric relational matrices whose Frobenius norm is a nonzero rational
\* and on which every eigendecomposition of the run is exact.
RelationalInputs ==
    {AllOnes(n) : n \in 2..(MaxN - 1)}
      \cup {m \in {Circulant4(t[1], t[2], t[3]) : t \in (0..2) \X (0..2) \X (0..2)} :
              NormSq(m)[1] > 0 /\ IsSquare(NormSq(m))}

RhoInputs == {<<1, 1>>, <<2, 1>>}

NoCall == /\ call = "none" /\ arg = <<>> /\ argK = 0
          /\ thresh = RZero /\ out = <<>>

\* pecok_admm up to the loop: lines 73-80.
Init ==
    /\ \E raw \in RelationalInputs :
         /\ relational_data = MDiv(raw, RSqrt(NormSq(raw)))
         /\ K \in 1..Shape(raw)
         /\ X = Identity(Shape(raw)) /\ Y = Identity(Shape(raw))
         /\ Z = Identity(Shape(raw))
         /\ U = Zeros(Shape(raw)) /\ V = Zeros(Shape(raw))
         /\ W = Zeros(Shape(raw))
         /\ Xbar = MDiv(MAdd(MAdd(Identity(Shape(raw)), Identity(Shape(raw))),
                             Identity(Shape(raw))), FromInt(3))
         /\ oldXbar = Unbound
    /\ rho \in RhoInputs
    /\ n_iter_max \in 0..MaxIter
    /\ n_iter = 0
    /\ res_primal = Unbound /\ res_dual = Unbound
    /\ pc = "while"
    /\ NoCall

\* ------------------------------------------------------------------ actions
\* A faulty loop test that admits one iteration too many.
WhileCondition_inclusive == n_iter <= n_iter_max

\* while n_iter < n_iter_max
WhileCondition == n_iter < n_iter_max

\* while n_iter < n_iter_max: n_iter = n_iter + 1; oldXbar = Xbar
EnterLoop ==
    /\ pc = "while" /\ WhileCondition
    /\ n_iter' = n_iter + 1
    /\ oldXbar' = Xbar
    /\ pc' = "X"
    /\ UNCHANGED <<relational_data, K, rho, n_iter_max, X, Y, Z, U, V, W, Xbar,
                   res_primal, res_dual, callVars>>

\* the while condition is false
LeaveLoop ==
    /\ pc = "while" /\ ~WhileCondition
    /\ pc' = "print"
    /\ UNCHANGED <<relational_data, K, rho, n_iter_max, n_iter, X, Y, Z, U, V, W,
                   Xbar, oldXbar, res_primal, res_dual, callVars>>

\* X = proj_lin_Hsymmetric(Xbar - U + relational_data / rho, K)
UpdateX ==
    /\ pc = "X"
    /\ X' = proj_lin_Hsymmetric(
              MAdd(MSub(Xbar, U), MDiv(relational_data, rho)), K)
    /\ pc' = "Y"
    /\ UNCHANGED <<relational_data, K, rho, n_iter_max, n_iter, Y, Z, U, V, W,
                   Xbar, oldXbar, res_primal, res_dual, callVars>>

\* Y = proj_positive(Xbar - V): the clamp is in place on the temporary
\* Xbar - V, which no other name refers to.
UpdateY ==
    /\ pc = "Y"
    /\ Y' = proj_positive(MSub(Xbar, V), RZero)
    /\ pc' = "Z"
    /\ UNCHANGED <<relational_data, K, rho, n_iter_max, n_iter, X, Z, U, V, W,
                   Xbar, oldXbar, res_primal, res_dual, callVars>>

\* Z = proj_Snp_imp(Xbar - W)
UpdateZ ==
    /\ pc = "Z"
    /\ Z' = proj_Snp_imp(MSub(Xbar, W))
    /\ pc' = "Xbar"
    /\ UNCHANGED <<relational_data, K, rho, n_iter_max, n_iter, X, Y, U, V, W,
                   Xbar, oldXbar, res_primal, res_dual, callVars>>

\* A faulty average that leaves Z out.
Average_without_Z(A, B, C) == MDiv(MAdd(A, B), FromInt(2))

\* (X + Y + Z) / 3
Average(A, B, C) == MDiv(MAdd(MAdd(A, B), C), FromInt(3))

\* Xbar = (X + Y + Z)/3
UpdateXbar ==
    /\ pc = "Xbar"
    /\ Xbar' = Average(X, Y, Z)
    /\ pc' = "duals"
    /\ UNCHANGED <<relational_data, K, rho, n_iter_max, n_iter, X, Y, Z, U, V, W,
                   oldXbar, res_primal, res_dual, callVars>>

\* A faulty dual increment that subtracts the Xbar saved at the start of the
\* iteration instead of the new one.
DualStep_stale(D, P, Abar) == MSub(MAdd(D, P), oldXbar)

\* U + X - Xbar
DualStep(D, P, Abar) == MSub(MAdd(D, P), Abar)

\* U = U + X - Xbar; V = V + Y - Xbar; W = W + Z - Xbar
UpdateDuals ==
    /\ pc = "duals"
    /\ U' = DualStep(U, X, Xbar)
    /\ V' = DualStep(V, Y, Xbar)
    /\ W' = DualStep(W, Z, Xbar)
    /\ pc' = "residuals"
    /\ UNCHANGED <<relational_data, K, rho, n_iter_max, n_iter, X, Y, Z, Xbar,
                   oldXbar, res_primal, res_dual, callVars>>

\* res_dual = ...; res_primal = ...
Residuals ==
    /\ pc = "residuals"
    /\ res_dual' = DualResidual(rho, Xbar, oldXbar)
    /\ res_primal' = PrimalResidual(X, Y, Z, Xbar)
    /\ pc' = "test"
    /\ UNCHANGED <<relational_data, K, rho, n_iter_max, n_iter, X, Y, Z, U, V, W,
                   Xbar, oldXbar, callVars>>

\* if not (...): break -- the residuals are still high, back to the while
Continue ==
    /\ pc = "test"
    /\ KeepIterating(res_primal, res_dual, X, Y, Z)
    /\ pc' = "while"
    /\ UNCHANGED <<relational_data, K, rho, n_iter_max, n_iter, X, Y, Z, U, V, W,
                   Xbar, oldXbar, res_primal, res_dual, callVars>>

\* if not (...): break -- taken
Break ==
    /\ pc = "test"
    /\ ~KeepIterating(res_primal, res_dual, X, Y, Z)
    /\ pc' = "print"
    /\ UNCHANGED <<relational_data, K, rho, n_iter_max, n_iter, X, Y, Z, U, V, W,
                   Xbar, oldXbar, res_primal, res_dual, callVars>>

\* The two print statements, then return Z.
PrintAndReturn ==
    /\ pc = "print"
    /\ res_primal # Unbound /\ res_dual # Unbound
    /\ pc' = "returned"
    /\ UNCHANGED <<relational_data, K, rho, n_iter_max, n_iter, X, Y, Z, U, V, W,
                   Xbar, oldXbar, res_primal, res_dual, callVars>>

\* The second print reads res_primal and res_dual, which only the loop body
\* assigns: UnboundLocalError when the body never ran.
PrintRaises ==
    /\ pc = "print"
    /\ (res_primal = Unbound \/ res_dual = Unbound)
    /\ pc' = "raised"
    /\ UNCHANGED <<relational_data, K, rho, n_iter_max, n_iter, X, Y, Z, U, V, W,
                   Xbar, oldXbar, res_primal, res_dual, callVars>>

Next ==
    \/ EnterLoop \/ LeaveLoop
    \/ UpdateX \/ UpdateY \/ UpdateZ \/ UpdateXbar \/ UpdateDuals
    \/ Residuals \/ Continue \/ Break
    \/ PrintAndReturn \/ PrintRaises

Spec == Init /\ [][Next]_vars

\* The interpreter runs the next statement: no step is postponed forever.
FairSpec == Spec /\ WF_vars(Next)

\* --------------------------------------------------------- projector calls
\* The projectors are public functions of the module: they are also called
\* on their own, outside pecok_admm.
Idle ==
    /\ pc = "idle" /\ relational_data = Unbound
    /\ K = 0 /\ rho = ROne /\ n_iter_max = 0 /\ n_iter = 0
    /\ X = Unbound /\ Y = Unbound /\ Z = Unbound
    /\ U = Unbound /\ V = Unbound /\ W = Unbound
    /\ Xbar = Unbound /\ oldXbar = Unbound
    /\ res_primal = Unbound /\ res_dual = Unbound

\* The n x n matrix with a at position p and b more at position q, positions
\* counted row by row from 0.
SparseMatrix(n, p, a, q, b) ==
    Strict([i \in 1..n |->
      Strict([j \in 1..n |->
        FromInt((IF (i - 1) * n + (j - 1) = p THEN a ELSE 0)
                + (IF (i - 1) * n + (j - 1) = q THEN b ELSE 0))])])

AffineInputs ==
    UNION {{SparseMatrix(n, p, a, q, b) :
              p \in 0..(n * n - 1), q \in 0..(n * n - 1),
              a \in -MaxEntry..MaxEntry, b \in -MaxEntry..MaxEntry}
           : n \in 2..(MaxN - 1)}

InitAffine ==
    /\ Idle
    /\ call = "none"
    /\ arg \in AffineInputs
    /\ argK \in 0..(MaxN - 1)
    /\ thresh = RZero
    /\ out = <<>>

\* out = proj_lin_Hrows(arg, argK)
CallHrows ==
    /\ call = "none" /\ pc = "idle" /\ thresh = RZero
    /\ call' = "proj_lin_Hrows"
    /\ out' = proj_lin_Hrows(arg, argK)
    /\ UNCHANGED <<admmVars, arg, argK, thresh>>

\* out = proj_lin_Hsymmetric(arg, argK)
CallHsymmetric ==
    /\ call = "none" /\ pc = "idle" /\ thresh = RZero
    /\ call' = "proj_lin_Hsymmetric"
    /\ out' = proj_lin_Hsymmetric(arg, argK)
    /\ UNCHANGED <<admmVars, arg, argK, thresh>>

NextAffine == CallHrows \/ CallHsymmetric

SpecAffine == InitAffine /\ [][NextAffine]_vars

\* 2 x 2 matrices of small integers, one step beyond the thresholds on either
\* side; the clamp works entry by entry.
PositiveEntries == (-MaxEntry - 1)..(MaxEntry + 1)

PositiveInputs ==
    {<<<<FromInt(t[1]), FromInt(t[2])>>, <<FromInt(t[3]), FromInt(t[4])>>>> :
        t \in PositiveEntries \X PositiveEntries \X PositiveEntries
                \X PositiveEntries}

InitPositive ==
    /\ Idle
    /\ call = "none"
    /\ arg \in PositiveInputs
    /\ argK = 0
    /\ thresh \in {FromInt(t) : t \in -MaxEntry..MaxEntry}
    /\ out = <<>>

\* out = proj_positive(arg, thresh).  The array passed in is clamped in place
\* and returned: out is that array after the call, and arg keeps the value it
\* held before the call.
CallPositive ==
    /\ call = "none" /\ pc = "idle" /\ argK = 0
    /\ call' = "proj_positive"
    /\ out' = proj_positive(arg, thresh)
    /\ UNCHANGED <<admmVars, arg, argK, thresh>>

NextPositive == CallPositive

SpecPositive == InitPositive /\ [][NextPositive]_vars

\* Symmetric matrices whose eigendecomposition is rational: diagonal ones,
\* a I + b J ones (J all ones), and symmetric circulant ones of size 4.
PSDInputs ==
    UNION {{DiagMat([i \in 1..n |-> FromInt(d[i])]) :
              d \in [1..n -> -MaxEntry..MaxEntry]}
             \cup {MAdd(MScale(Identity(n), FromInt(a)), MScale(AllOnes(n), FromInt(b))) :
                     a \in -MaxEntry..MaxEntry, b \in -MaxEntry..MaxEntry}
           : n \in 2..(MaxN - 1)}
      \cup {Circulant4(c0, c1, c2) :
              c0 \in -MaxEntry..MaxEntry, c1 \in -MaxEntry..MaxEntry,
              c2 \in -MaxEntry..MaxEntry}

\* argK counts the applications of proj_Snp_imp; thresh is not used.
InitPSD ==
    /\ Idle
    /\ call = "none"
    /\ arg \in PSDInputs
    /\ argK = 0
    /\ thresh = RZero
    /\ out = <<>>

\* out = proj_Snp_imp(arg)
CallSnp ==
    /\ call = "none" /\ pc = "idle" /\ arg \in PSDInputs
    /\ call' = "proj_Snp_imp"
    /\ out' = proj_Snp_imp(arg)
    /\ argK' = 1
    /\ UNCHANGED <<admmVars, arg, thresh>>

\* out = proj_Snp_imp(out)
CallSnpAgain ==
    /\ call = "proj_Snp_imp" /\ argK < MaxIter
    /\ out' = proj_Snp_imp(out)
    /\ argK' = argK + 1
    /\ UNCHANGED <<admmVars, call, arg, thresh>>

NextPSD == CallSnp \/ CallSnpAgain

SpecPSD == InitPSD /\ [][NextPSD]_vars

\* ------------------------------------------------------ properties: helpers
IsSymmetric(M0) ==
    \E M \in {M0} : \A i, j \in 1..Len(M) : M[i][j] = M[j][i]

\* The least common denominator of the entries k .. n * n of M, counted row
\* by row.
RECURSIVE CommonDenominator(_, _)
CommonDenominator(M, k) ==
    IF k > Len(M) * Len(M) THEN 1
    ELSE Only({Lcm(M[((k - 1) \div Len(M)) + 1][((k - 1) % Len(M)) + 1][2], l)
               : l \in {CommonDenominator(M, k + 1)}})

\* M times the least common denominator of its entries: an integer matrix
\* whose quadratic forms have the signs of those of M.
Scaled(M0) ==
    Only({Only({Strict([i \in 1..Len(M) |->
                  Strict([j \in 1..Len(M) |-> M[i][j][1] * (l \div M[i][j][2])])])
                : l \in {CommonDenominator(M, 1)}})
          : M \in {M0}})

RECURSIVE IntSumRange(_, _, _)
IntSumRange(f, lo, hi) ==
    IF lo > hi THEN 0
    ELSE IF lo = hi THEN f[lo]
    ELSE Only({IntSumRange(f, lo, mid) + IntSumRange(f, mid + 1, hi)
               : mid \in {(lo + hi) \div 2}})

\* v^T N v for an integer matrix N and an integer vector v.
QuadForm(N, v) ==
    IntSumRange([k \in 1..(Len(N) * Len(N)) |->
                    N[((k - 1) \div Len(N)) + 1][((k - 1) % Len(N)) + 1]
                      * v[((k - 1) \div Len(N)) + 1] * v[((k - 1) % Len(N)) + 1]],
                1, Len(N) * Len(N))

\* The vectors with entries -1, 0, 1.  They hold an eigenvector for every
\* eigenvalue of every matrix of the projector families above, so a symmetric
\* matrix of those families has a negative eigenvalue exactly when some
\* quadratic form below is negative.
TestVectors(n) == [1..n -> {-1, 0, 1}]

\* No negative eigenvalue, by quadratic forms and not by Spectrum.
IsPSD(M0) ==
    \E N \in {Scaled(M0)} : \A v \in TestVectors(Len(N)) : QuadForm(N, v) >= 0

\* All n eigenvalues strictly negative, by quadratic forms.
IsNegativeDefinite(M0) ==
    \E N \in {Scaled(M0)} : \A v \in TestVectors(Len(N)) :
        (\E i \in 1..Len(N) : v[i] # 0) => QuadForm(N, v) < 0

\* Some eigenvalue is zero, by quadratic forms.
IsSingular(M0) ==
    \E N \in {Scaled(M0)} : \E v \in TestVectors(Len(N)) :
        /\ \E i \in 1..Len(N) : v[i] # 0
        /\ \A i \in 1..Len(N) :
              IntSumRange([j \in 1..Len(N) |-> N[i][j] * v[j]], 1, Len(N)) = 0

AfterLoop == {"print", "returned", "raised"}

\* The argument of the last call of proj_Snp_imp, recovered from the state
\* after the iteration: W was W_prev + Z - Xbar and oldXbar is Xbar_prev.
LastSnpInput == MSub(oldXbar, MAdd(MSub(W, Z), Xbar))

\* ------------------------------------------------------------ properties: C1
\* C1: the matrix Z that pecok_admm returns is symmetric and has no negative
\* eigenvalue, whichever return statement of proj_Snp_imp produced it.
C1_ReturnedZSymmetricPSD ==
    pc = "returned" => IsSymmetric(Z) /\ IsPSD(Z)

\* A return of a Z that a partial eigendecomposition of a matrix with a
\* negative eigenvalue produced.
C1_Witness ==
    /\ pc = "returned"
    /\ ~IsPSD(LastSnpInput)
    /\ SnpBranch(LastSnpInput) \in {"negative_part", "positive_part"}

\* ------------------------------------------------------------ properties: C2
\* C2: every run leaves the loop; n_iter stays within 0 .. n_iter_max, so the
\* body runs at most n_iter_max times; and the loop is left only with the
\* budget used up or by the break, both residuals at or below tolerance.
C2_LoopBoundedAndLeft ==
    /\ [](/\ n_iter \in 0..n_iter_max
          /\ pc \in AfterLoop =>
                \/ n_iter = n_iter_max
                \/ ~KeepIterating(res_primal, res_dual, X, Y, Z))
    /\ <>(pc \in AfterLoop)

\* The budget is used up with a residual still above tolerance.
C2_Witness ==
    /\ pc = "print" /\ n_iter = n_iter_max /\ n_iter_max >= 2
    /\ KeepIterating(res_primal, res_dual, X, Y, Z)

\* ------------------------------------------------------------ properties: C3
\* C3: leaving the loop is never an error, for every budget n_iter_max >= 0,
\* the budget 0 included: the diagnostics are printed and Z is returned.
C3_ExhaustionIsNoError == pc # "raised"

\* ------------------------------------------------------------ properties: C4
\* max(|X|, |Y|, |Z|), squared.
C4_PrimalScale == RMax(RMax(NormSq(X), NormSq(Y)), NormSq(Z))

\* s = n + |Y|^2 + |Z|^2; (sqrt(n) + |Y| + |Z|)^2 lies in [s, 3 s].
C4_DualScale == RAdd(FromInt(Shape(Y)), RAdd(NormSq(Y), NormSq(Z)))

\* C4: the dual residual is rho times the norm of the new Xbar minus the Xbar
\* saved at the start of the iteration, and after the residuals are taken the
\* loop goes on exactly when the primal residual exceeds
\* epsilon * max(|X|, |Y|, |Z|) or the dual residual exceeds
\* epsilon * (sqrt(n) + |Y| + |Z|), and breaks exactly when neither does.
C4_ContinueIffResidualHigh ==
    /\ [](pc = "test" =>
            /\ res_dual = RMul(RMul(rho, rho), NormSq(MSub(Xbar, oldXbar)))
            /\ res_primal = RAdd(NormSq(MSub(X, Xbar)),
                                 RAdd(NormSq(MSub(Y, Xbar)), NormSq(MSub(Z, Xbar)))))
    /\ [][pc = "test" =>
            /\ pc' = "while" =>
                  \/ Exceeds(res_primal, C4_PrimalScale)
                  \/ Exceeds(res_dual, C4_DualScale)
            /\ pc' = "print" =>
                  /\ ~Exceeds(res_primal, C4_PrimalScale)
                  /\ ~Exceeds(res_dual, RMul(FromInt(3), C4_DualScale))
            /\ pc' \in {"while", "print"}]_vars

\* The break is taken with budget left, after a run that went on at least once
\* with rho # 1.
C4_Witness ==
    /\ pc = "print" /\ n_iter < n_iter_max /\ n_iter >= 1
    /\ rho # ROne
    /\ ~Exceeds(res_primal, C4_PrimalScale)

\* ------------------------------------------------------------ properties: C5
\* Every row of M sums to 1 and the trace of M is k.
IsFeasible(M0, k) ==
    \E M \in {M0} :
        /\ \A i \in 1..Len(M) : SumSeq(M[i]) = ROne
        /\ SumSeq([i \in 1..Len(M) |-> M[i][i]]) = FromInt(k)

\* C5: the output of proj_lin_Hrows and of proj_lin_Hsymmetric has every row
\* sum equal to 1 and trace equal to K, for every matrix Y and every K.
C5_AffineOutputsFeasible ==
    call \in {"proj_lin_Hrows", "proj_lin_Hsymmetric"} => IsFeasible(out, argK)

\* proj_lin_Hsymmetric has moved a 3 x 3 matrix that is not symmetric and
\* whose trace is not K.
C5_Witness ==
    /\ call = "proj_lin_Hsymmetric" /\ Len(arg) = 3
    /\ ~IsSymmetric(arg) /\ ~IsFeasible(arg, argK) /\ out # arg

\* ------------------------------------------------------------ properties: C6
\* |A - B|^2, the squared Frobenius distance.
DistSq(A, B) == NormSq(MSub(A, B))

\* The positions above the diagonal.
OffDiag(n) == {t \in (1..n) \X (1..n) : t[1] < t[2]}

\* The symmetric n x n matrices, zero apart, with off-diagonal entries in
\* -1 .. 1 that sum to 0 and each diagonal entry minus the rest of its row:
\* every row sums to 0 and the trace is 0.  Adding a multiple of one to a
\* symmetric matrix keeps its symmetry, its row sums and its trace.  There is
\* none for n = 2, where one matrix alone satisfies the constraints.
Directions(n) ==
    {D \in {Strict([i \in 1..n |->
              Strict([j \in 1..n |->
                FromInt(IF i = j
                        THEN -IntSumRange([k \in 1..n |->
                                 IF k = i THEN 0
                                 ELSE IF k < i THEN off[<<k, i>>] ELSE off[<<i, k>>]],
                               1, n)
                        ELSE IF i < j THEN off[<<i, j>>] ELSE off[<<j, i>>])])])
            : off \in [OffDiag(n) -> -1..1]} :
        D # Zeros(n) /\ Trace(D) = RZero}

\* The point of the line M + t D nearest to T.
NearestOnLine(M, D, T) ==
    MAdd(M, MScale(D, RDiv(Inner(MSub(T, M), D), Inner(D, D))))

\* C6: no symmetric matrix with row sums 1 and trace K is strictly nearer to
\* Y in Frobenius distance than proj_lin_Hsymmetric(Y, K), Y symmetric.
C6_SymmetricNearest ==
    (call = "proj_lin_Hsymmetric" /\ IsSymmetric(arg)) =>
        \A D \in Directions(Len(arg)) :
            \A M \in {NearestOnLine(out, D, arg)} :
                (IsSymmetric(M) /\ IsFeasible(M, argK)) =>
                    ~RLt(DistSq(M, arg), DistSq(out, arg))

\* ------------------------------------------------------------ properties: C7
\* C7, as the clamp works: every entry of the output of proj_positive is 0
\* or at least the threshold, so none is below a threshold that is zero or
\* negative, and every entry of the input that was at least the threshold is
\* unchanged.
C7_ClampToZero ==
    call = "proj_positive" =>
        \A i, j \in 1..Len(arg) :
            /\ out[i][j] = RZero \/ RLe(thresh, out[i][j])
            /\ RLe(thresh, RZero) => RLe(thresh, out[i][j])
            /\ RLe(thresh, arg[i][j]) => out[i][j] = arg[i][j]
            /\ RLt(arg[i][j], thresh) => out[i][j] = RZero

\* An entry below a negative threshold was clamped, another was kept.
C7_Witness ==
    /\ call = "proj_positive" /\ RLt(thresh, RZero)
    /\ \E i, j \in 1..Len(arg) : RLt(arg[i][j], thresh) /\ out[i][j] = RZero
    /\ \E i, j \in 1..Len(arg) : arg[i][j] = thresh /\ out[i][j] = thresh

\* C7 as stated: for every threshold, positive ones included, no entry of
\* the output is below the threshold, and every entry of the input that was
\* at least the threshold is unchanged.
C7_NoEntryBelowThreshold ==
    call = "proj_positive" =>
        \A i, j \in 1..Len(arg) :
            /\ ~RLt(out[i][j], thresh)
            /\ RLe(thresh, arg[i][j]) => out[i][j] = arg[i][j]

\* ------------------------------------------------------------ properties: C8
\* C8: an input without a strictly negative eigenvalue (zero eigenvalues
\* count as non-negative) takes the first return of proj_Snp_imp and comes
\* back unchanged, however many times the projector is applied; an input with
\* all eigenvalues strictly negative takes the second return and gives the
\* zero matrix; the two partial eigendecompositions are computed only for an
\* input with both a negative and a non-negative eigenvalue.
C8_DegenerateSpectra ==
    call = "proj_Snp_imp" =>
        \E psd \in {IsPSD(arg)}, neg \in {IsNegativeDefinite(arg)},
           branch \in {SnpBranch(arg)} :
            /\ psd => (branch = "unchanged" /\ out = arg)
            /\ neg => (branch = "zeros" /\ out = Zeros(Shape(arg)))
            /\ branch \in {"negative_part", "positive_part"} => (~psd /\ ~neg)

\* A singular PSD matrix that is not zero has gone through the projector more
\* than once.
C8_Witness ==
    /\ call = "proj_Snp_imp" /\ argK >= 2
    /\ IsPSD(arg) /\ arg # Zeros(Shape(arg))
    /\ IsSingular(arg)

\* ------------------------------------------------------------ properties: C9
\* C9: in an iteration X, Y and Z are each computed from the Xbar, U, V, W
\* that the previous iteration left (Xbar is still the saved oldXbar and the
\* duals are untouched while the three are computed); then Xbar becomes
\* (X + Y + Z) / 3; then each dual grows by its primal minus the new Xbar.
\* The first iteration starts from X = Y = Z = Xbar = identity, U = V = W = 0.
\* At the end of an iteration the duals it started from are U - X + Xbar,
\* V - Y + Xbar and W - Z + Xbar, and X, Y, Z are the projections of the
\* saved Xbar shifted by those.
C9_UpdateOrder ==
    /\ [](n_iter = 0 =>
            /\ X = Identity(Shape(X)) /\ Y = X /\ Z = X /\ Xbar = X
            /\ U = Zeros(Shape(X)) /\ V = U /\ W = U)
    /\ [](pc \in {"X", "Y", "Z", "Xbar"} => Xbar = oldXbar)
    /\ [](pc \in {"residuals", "test"} =>
            /\ X = proj_lin_Hsymmetric(
                     MAdd(MSub(oldXbar, MAdd(MSub(U, X), Xbar)),
                          MDiv(relational_data, rho)), K)
            /\ Y = proj_positive(MSub(oldXbar, MAdd(MSub(V, Y), Xbar)), RZero)
            /\ Z = proj_Snp_imp(LastSnpInput)
            /\ Xbar = MDiv(MAdd(MAdd(X, Y), Z), FromInt(3)))
    /\ [][/\ pc \in {"X", "Y", "Z", "Xbar"} => UNCHANGED <<U, V, W, oldXbar>>
          /\ pc = "X" =>
                X' = proj_lin_Hsymmetric(
                       MAdd(MSub(oldXbar, U), MDiv(relational_data, rho)), K)
          /\ pc = "Y" => Y' = proj_positive(MSub(oldXbar, V), RZero)
          /\ pc = "Z" => Z' = proj_Snp_imp(MSub(oldXbar, W))
          /\ pc = "Xbar" =>
                Xbar' = MDiv(MAdd(MAdd(X, Y), Z), FromInt(3))
          /\ pc = "duals" =>
                /\ U' = MSub(MAdd(U, X), Xbar)
                /\ V' = MSub(MAdd(V, Y), Xbar)
                /\ W' = MSub(MAdd(W, Z), Xbar)
                /\ UNCHANGED <<X, Y, Z, Xbar>>]_vars

\* A second iteration has updated the duals, and the new Xbar differs from
\* the saved one.
C9_Witness ==
    /\ pc = "residuals" /\ n_iter >= 2
    /\ Xbar # oldXbar
    /\ U # Zeros(Shape(U))

\* ----------------------------------------------------------- properties: C10
\* C10: before the first iteration and after every completed iteration the
\* three duals sum to the zero matrix.
C10_DualsSumToZero ==
    pc \in {"while", "residuals", "test"} \cup AfterLoop =>
        MAdd(MAdd(U, V), W) = Zeros(Shape(U))

\* Two iterations are complete and no dual is zero.
C10_Witness ==
    /\ pc = "while" /\ n_iter >= 2
    /\ U # Zeros(Shape(U)) /\ V # Zeros(Shape(V)) /\ W # Zeros(Shape(W))

====
